---- MODULE Spec2Model ----
(***************************************************************************)
(* Model of backend/app/main.py: the in-memory TTL cache (TTLCache), the   *)
(* Hugging Face Router gateway (hf_chat_completion), the two cached        *)
(* endpoints (explain, infer) and the local analysis (analyze with         *)
(* simple_auto_format, find_duplicate_functions, lint_like_findings).      *)
(*                                                                         *)
(* The specifications share the operators of the code they call:           *)
(*   CacheSpec           arbitrary get/set calls on one TTLCache object;   *)
(*   MonotonicCacheSpec  the same under a clock that only moves forward;   *)
(*   Spec                concurrent explain/infer requests on the event    *)
(*                       loop, each POST answered with a final status;     *)
(*   GatewaySpec         one request at a time, the router answering with  *)
(*                       any status and body, so that the retry is taken;  *)
(*   LiveSpec            two requests, any status, the POSTs of the first  *)
(*                       always ending;                                    *)
(*   AnalyzeSpec         the analysis functions applied to a bounded set   *)
(*                       of request texts.                                 *)
(* A handler runs without interruption between two awaits: get and set     *)
(* are synchronous, and the only awaits are the POSTs of the gateway.      *)
(***************************************************************************)
EXTENDS Integers, Sequences, FiniteSets, TLC

VARIABLES
    HF_API_TOKEN,   \* module global read once from the environment
    hashSeed,       \* the interpreter's per-process str-hash randomisation
    max_items,      \* TTLCache.max_items
    store,          \* TTLCache.store: a dict, kept in insertion order
    now,            \* the reading time.time() gives
    reqs,           \* the request coroutines of the event loop
    last,           \* CacheSpec: record of the last direct cache call
    written,        \* CacheSpec: per key, the most recent set still stored
    req_code,       \* AnalyzeSpec: the text handed to the analysis functions
    response        \* AnalyzeSpec: what the last analysis call returned

vars == <<HF_API_TOKEN, hashSeed, max_items, store, now, reqs, last, written, req_code, response>>

----------------------------------------------------------------------------
(* Bounds and program constants *)

\* largest max_items a cache is constructed with
MaxItemsBound == 2

\* TTLCache.__init__ default ttl_seconds
ttl_seconds == 45

\* Python's None
None == <<>>

\* clock readings: the start, one ttl later, and one second past that
ClockReadings == {0, ttl_seconds, ttl_seconds + 1}

\* keys and values of direct cache calls
CacheKeys == {"k1", "k2", "k3"}
CacheValues == {[text |-> "A"], [text |-> "B"]}

----------------------------------------------------------------------------
(* Python dict, in insertion order: a sequence of [key, ts, value] *)

dict_keys(s) == {s[i].key : i \in 1..Len(s)}

dict_get(s, k) ==
    IF k \in dict_keys(s)
    THEN LET i == CHOOSE j \in 1..Len(s) : s[j].key = k IN s[i]
    ELSE None

dict_pop(s, k) == SelectSeq(s, LAMBDA e : e.key # k)

\* an insertion that never looks for the key
dict_setitem_appends(s, k, ts, v) ==
    Append(s, [key |-> k, ts |-> ts, value |-> v])

\* d[k] = item: an existing key keeps its position, a new key goes last
dict_setitem(s, k, ts, v) ==
    LET item == [key |-> k, ts |-> ts, value |-> v] IN
    IF k \in dict_keys(s)
    THEN [i \in 1..Len(s) |-> IF s[i].key = k THEN item ELSE s[i]]
    ELSE Append(s, item)

\* the key of the largest timestamp instead of the smallest
min_by_ts_takes_newest(s) ==
    LET i == CHOOSE j \in 1..Len(s) :
                 /\ \A m \in 1..Len(s) : s[j].ts >= s[m].ts
                 /\ \A m \in 1..(j - 1) : s[m].ts < s[j].ts
    IN s[i].key

\* min(d, key=lambda k: d[k][0]): the first key, in iteration order, of
\* the smallest timestamp
min_by_ts(s) ==
    LET i == CHOOSE j \in 1..Len(s) :
                 /\ \A m \in 1..Len(s) : s[j].ts <= s[m].ts
                 /\ \A m \in 1..(j - 1) : s[m].ts > s[j].ts
    IN s[i].key

----------------------------------------------------------------------------
(* TTLCache *)

\* get with the expiry test off by one: an entry of age ttl is dropped
TTLCache_get_expires_at_ttl(s, k, t) ==
    LET item == dict_get(s, k) IN
    IF item = None
    THEN [store |-> s, ret |-> None]
    ELSE IF t - item.ts >= ttl_seconds
         THEN [store |-> dict_pop(s, k), ret |-> None]
         ELSE [store |-> s, ret |-> item.value]

\* get sweeping every expired entry when it finds the asked one expired
TTLCache_get_sweeps_expired(s, k, t) ==
    LET item == dict_get(s, k) IN
    IF item = None
    THEN [store |-> s, ret |-> None]
    ELSE IF t - item.ts > ttl_seconds
         THEN [store |-> SelectSeq(s, LAMBDA e : t - e.ts <= ttl_seconds),
               ret |-> None]
         ELSE [store |-> s, ret |-> item.value]

\* get: [store |-> the store afterwards, ret |-> the value returned]
TTLCache_get(s, k, t) ==
    LET item == dict_get(s, k) IN
    IF item = None
    THEN [store |-> s, ret |-> None]
    ELSE IF t - item.ts > ttl_seconds
         THEN [store |-> dict_pop(s, k), ret |-> None]
         ELSE [store |-> s, ret |-> item.value]

\* eviction only once the store is over capacity
TTLCache_evict_when_over(s, m) ==
    IF Len(s) > m
    THEN dict_pop(s, min_by_ts(s))
    ELSE s

\* eviction of the first-inserted key, whatever its timestamp
TTLCache_evict_first_inserted(s, m) ==
    IF Len(s) >= m
    THEN dict_pop(s, s[1].key)
    ELSE s

\* the eviction step of set
TTLCache_evict(s, m) ==
    IF Len(s) >= m
    THEN dict_pop(s, min_by_ts(s))
    ELSE s

TTLCache_set(s, m, k, v, t) ==
    dict_setitem(TTLCache_evict(s, m), k, t, v)

----------------------------------------------------------------------------
(* Direct calls on a cache object *)

NoCall == [op |-> "none", key |-> "", value |-> None, ret |-> None,
           before |-> <<>>, mid |-> <<>>, prior |-> None, now |-> 0]

\* the most recent set of each key still stored
Remember(w, s) == [k \in DOMAIN w |-> IF k \in dict_keys(s) THEN w[k] ELSE None]

CallGet(k) ==
    LET g == TTLCache_get(store, k, now) IN
    /\ store' = g.store
    /\ last' = [op |-> "get", key |-> k, value |-> None, ret |-> g.ret,
                before |-> store, mid |-> store, prior |-> written[k],
                now |-> now]
    /\ written' = Remember(written, g.store)
    /\ UNCHANGED <<HF_API_TOKEN, hashSeed, max_items, now, reqs, req_code, response>>

CallSet(k, v) ==
    /\ store' = TTLCache_set(store, max_items, k, v, now)
    /\ last' = [op |-> "set", key |-> k, value |-> v, ret |-> None,
                before |-> store, mid |-> TTLCache_evict(store, max_items),
                prior |-> written[k], now |-> now]
    /\ written' = Remember([written EXCEPT ![k] = [value |-> v, at |-> now]],
                           store')
    /\ UNCHANGED <<HF_API_TOKEN, hashSeed, max_items, now, reqs, req_code, response>>

\* time.time() reads whatever the system clock says
Tick(t) ==
    /\ t # now
    /\ now' = t
    /\ UNCHANGED <<HF_API_TOKEN, hashSeed, max_items, store, reqs, last, written, req_code, response>>

CacheInit ==
    /\ HF_API_TOKEN = "hf_token"
    /\ hashSeed = 0
    /\ max_items \in 1..MaxItemsBound
    /\ store = <<>>
    /\ now \in ClockReadings
    /\ reqs = <<>>
    /\ last = NoCall
    /\ written = [k \in CacheKeys |-> None]
    /\ req_code = <<>>
    /\ response = None

CacheNext ==
    \/ \E k \in CacheKeys : CallGet(k)
    \/ \E k \in CacheKeys, v \in CacheValues : CallSet(k, v)
    \/ \E t \in ClockReadings : Tick(t)

CacheSpec == CacheInit /\ [][CacheNext]_vars

----------------------------------------------------------------------------
(* Requests: inputs, cache keys, upstream responses *)

\* request slots of the event loop: requests in flight at once
NumRequests == 2

\* the values the model field's pattern admits
Models == {"qwen3", "deepseek-3.1"}

\* the model the requests name (the model only enters the key and the payload)
RequestModels == {"qwen3"}

\* input texts (req.code, req.prompt), as character sequences
InputTexts == {<<"a">>, <<"b">>}

HashSeeds == {0, 1}

CharCode(c) == IF c = "a" THEN 1 ELSE 2

RECURSIVE CodeSum(_)
CodeSum(text) == IF text = <<>> THEN 0 ELSE CharCode(Head(text)) + CodeSum(Tail(text))

\* hash(str): a signed integer fixed by the text and the process's seed,
\* not injective; hash("") is 0
PyHash(seed, text) ==
    IF text = <<>> THEN 0
    ELSE (((seed + CodeSum(text)) * (seed + CodeSum(text))) % 3) - 1

\* a key without the operation prefix
FormatKey_without_op(op, model, h) == model \o ":" \o ToString(h)

\* f"{op}:{model}:{hash(text)}"
FormatKey(op, model, h) == op \o ":" \o model \o ":" \o ToString(h)

explain_cache_key(seed, model, code) == FormatKey("explain", model, PyHash(seed, code))

infer_cache_key(seed, model, prompt) == FormatKey("infer", model, PyHash(seed, prompt))

\* upstream status codes: success, the two retried ones, another failure
StatusCodes == {200, 429, 503, 500}

\* the statuses that are never retried
FinalCodes == {200, 500}

\* upstream bodies (r.text) that are JSON: a completion, another shape
JsonBodies == {"{choices:[{message:{content:A}}]}", "{error:busy}"}

\* and one that is not JSON
Bodies == JsonBodies \cup {"<html>"}

\* whether r.json() parses the body
IsJson(body) == body \in JsonBodies

\* data["choices"][0]["message"]["content"], "" standing for the KeyError
ChoicesContent(body) ==
    IF body = "{choices:[{message:{content:A}}]}" THEN "A" ELSE ""

ContentFails(body) == body # "{choices:[{message:{content:A}}]}"

\* the handlers' result dicts
explain_result(text) == [explanation |-> text]
infer_result(text) == [text |-> text]

\* `if cached:` -- a dict is true unless empty; the handlers store none empty
Truthy(v) == v # None

Idle == [pc |-> "idle", op |-> "", model |-> "", text |-> <<>>,
         cache_key |-> "", cached |-> None, attempts |-> 0, codes |-> <<>>,
         body |-> "", ret |-> None, exc |-> ""]

ConfigurationError == "HF_API_TOKEN not configured."
UpstreamError(text) == "Hugging Face Router API error: " \o text
MalformedResponse == "Unexpected response format from HF Router API"
TransportError == "httpx.HTTPError"
JSONDecodeError == "json.JSONDecodeError"

----------------------------------------------------------------------------
(* hf_chat_completion, from the handler's call to its first await *)

\* the gateway without its credential test
hf_chat_completion_begin_unchecked(q) ==
    [q EXCEPT !.pc = "post", !.attempts = 1]

\* the request's state after cache.get missed: the credential test, then
\* the first POST
hf_chat_completion_begin(q) ==
    IF HF_API_TOKEN = ""
    THEN [q EXCEPT !.pc = "raised", !.exc = ConfigurationError]
    ELSE [q EXCEPT !.pc = "post", !.attempts = 1]

\* a handler up to its first suspension: key, cache.get, hit or gateway
Handle(i, op, model, text, key) ==
    LET g == TTLCache_get(store, key, now)
        q == [Idle EXCEPT !.op = op, !.model = model, !.text = text,
                          !.cache_key = key, !.cached = g.ret]
    IN /\ reqs[i].pc = "idle"
       /\ store' = g.store
       /\ reqs' = [reqs EXCEPT ![i] =
                     IF Truthy(g.ret)
                     THEN [q EXCEPT !.pc = "returned", !.ret = g.ret]
                     ELSE hf_chat_completion_begin(q)]
       /\ UNCHANGED <<HF_API_TOKEN, hashSeed, max_items, now, last, written, req_code, response>>

explain(i, model, code) ==
    Handle(i, "explain", model, code, explain_cache_key(hashSeed, model, code))

infer(i, model, prompt) ==
    Handle(i, "infer", model, prompt, infer_cache_key(hashSeed, model, prompt))

\* a retry on the rate-limit status only
Retries_on_429_only(attempts, status) == attempts = 1 /\ status = 429

\* a retry after every 429 or 503, whatever the number of attempts
Retries_without_limit(attempts, status) == status \in {429, 503}

\* whether the response just received is answered by a second POST
Retries(attempts, status) == attempts = 1 /\ status \in {429, 503}

\* the result dict the handler builds from the gateway's text
ResultOf(op, text) == IF op = "explain" THEN explain_result(text) ELSE infer_result(text)

\* the handler caching an empty result when the body cannot be read
post_returns_caches_failure(i, status, body) ==
    LET q == [reqs[i] EXCEPT !.codes = Append(@, status), !.body = body] IN
    /\ reqs[i].pc = "post"
    /\ IF Retries(reqs[i].attempts, status)
       THEN /\ reqs' = [reqs EXCEPT ![i] = [q EXCEPT !.attempts = 2]]
            /\ store' = store
       ELSE IF status # 200
       THEN /\ reqs' = [reqs EXCEPT ![i] =
                          [q EXCEPT !.pc = "raised", !.exc = UpstreamError(body)]]
            /\ store' = store
       ELSE IF ~IsJson(body)
       THEN /\ reqs' = [reqs EXCEPT ![i] =
                          [q EXCEPT !.pc = "raised", !.exc = JSONDecodeError]]
            /\ store' = store
       ELSE IF ContentFails(body)
       THEN /\ reqs' = [reqs EXCEPT ![i] =
                          [q EXCEPT !.pc = "raised", !.exc = MalformedResponse]]
            /\ store' = TTLCache_set(store, max_items, q.cache_key,
                                     ResultOf(q.op, ""), now)
       ELSE LET result == ResultOf(q.op, ChoicesContent(body)) IN
            /\ store' = TTLCache_set(store, max_items, q.cache_key, result, now)
            /\ reqs' = [reqs EXCEPT ![i] =
                          [q EXCEPT !.pc = "returned", !.ret = result]]
    /\ UNCHANGED <<HF_API_TOKEN, hashSeed, max_items, now, last, written, req_code, response>>

\* the handler returning the result without cache.set
post_returns_without_set(i, status, body) ==
    LET q == [reqs[i] EXCEPT !.codes = Append(@, status), !.body = body] IN
    /\ reqs[i].pc = "post"
    /\ IF Retries(reqs[i].attempts, status)
       THEN /\ reqs' = [reqs EXCEPT ![i] = [q EXCEPT !.attempts = 2]]
            /\ store' = store
       ELSE IF status # 200
       THEN /\ reqs' = [reqs EXCEPT ![i] =
                          [q EXCEPT !.pc = "raised", !.exc = UpstreamError(body)]]
            /\ store' = store
       ELSE IF ~IsJson(body)
       THEN /\ reqs' = [reqs EXCEPT ![i] =
                          [q EXCEPT !.pc = "raised", !.exc = JSONDecodeError]]
            /\ store' = store
       ELSE IF ContentFails(body)
       THEN /\ reqs' = [reqs EXCEPT ![i] =
                          [q EXCEPT !.pc = "raised", !.exc = MalformedResponse]]
            /\ store' = store
       ELSE LET result == ResultOf(q.op, ChoicesContent(body)) IN
            /\ store' = store
            /\ reqs' = [reqs EXCEPT ![i] =
                          [q EXCEPT !.pc = "returned", !.ret = result]]
    /\ UNCHANGED <<HF_API_TOKEN, hashSeed, max_items, now, last, written, req_code, response>>

\* client.post returns: retry, or fail, or build the result, cache.set, return
post_returns(i, status, body) ==
    LET q == [reqs[i] EXCEPT !.codes = Append(@, status), !.body = body] IN
    /\ reqs[i].pc = "post"
    /\ IF Retries(reqs[i].attempts, status)
       THEN /\ reqs' = [reqs EXCEPT ![i] = [q EXCEPT !.attempts = 2]]
            /\ store' = store
       ELSE IF status # 200
       THEN /\ reqs' = [reqs EXCEPT ![i] =
                          [q EXCEPT !.pc = "raised", !.exc = UpstreamError(body)]]
            /\ store' = store
       ELSE IF ~IsJson(body)
       THEN /\ reqs' = [reqs EXCEPT ![i] =
                          [q EXCEPT !.pc = "raised", !.exc = JSONDecodeError]]
            /\ store' = store
       ELSE IF ContentFails(body)
       THEN /\ reqs' = [reqs EXCEPT ![i] =
                          [q EXCEPT !.pc = "raised", !.exc = MalformedResponse]]
            /\ store' = store
       ELSE LET result == ResultOf(q.op, ChoicesContent(body)) IN
            /\ store' = TTLCache_set(store, max_items, q.cache_key, result, now)
            /\ reqs' = [reqs EXCEPT ![i] =
                          [q EXCEPT !.pc = "returned", !.ret = result]]
    /\ UNCHANGED <<HF_API_TOKEN, hashSeed, max_items, now, last, written, req_code, response>>

\* client.post raises (timeout, connection error): the request fails
post_raises(i) ==
    /\ reqs[i].pc = "post"
    /\ reqs' = [reqs EXCEPT ![i] = [@ EXCEPT !.pc = "raised", !.exc = TransportError]]
    /\ UNCHANGED <<HF_API_TOKEN, hashSeed, max_items, store, now, last, written, req_code, response>>

\* the response or the error goes out and the coroutine is gone
respond(i) ==
    /\ reqs[i].pc \in {"returned", "raised"}
    /\ reqs' = [reqs EXCEPT ![i] = Idle]
    /\ UNCHANGED <<HF_API_TOKEN, hashSeed, max_items, store, now, last, written, req_code, response>>

\* the seeds under which the input texts have one hash
CollidingSeeds == {sd \in HashSeeds : \A t, u \in InputTexts : PyHash(sd, t) = PyHash(sd, u)}

InitWith(seeds) ==
    /\ HF_API_TOKEN \in {"", "hf_token"}
    /\ hashSeed \in seeds
    /\ max_items \in 1..MaxItemsBound
    /\ store = <<>>
    /\ now \in ClockReadings
    /\ reqs = [i \in 1..NumRequests |-> Idle]
    /\ last = NoCall
    /\ written = [k \in CacheKeys |-> None]
    /\ req_code = <<>>
    /\ response = None

\* a process whose seed makes the input texts collide
Init == InitWith(CollidingSeeds)

\* concurrent requests; the router answers each POST with a final status
\* and a JSON body
Next ==
    \/ \E i \in 1..NumRequests, m \in RequestModels, t \in InputTexts : explain(i, m, t)
    \/ \E i \in 1..NumRequests, m \in RequestModels, t \in InputTexts : infer(i, m, t)
    \/ \E i \in 1..NumRequests, c \in FinalCodes, b \in JsonBodies : post_returns(i, c, b)
    \/ \E i \in 1..NumRequests : post_raises(i)
    \/ \E i \in 1..NumRequests : respond(i)
    \/ \E t \in ClockReadings : Tick(t)

Spec == Init /\ [][Next]_vars

\* one request at a time; the router answers with any status, the retried
\* ones included, and any body
GatewayNext ==
    \/ \E m \in RequestModels, t \in InputTexts : explain(1, m, t)
    \/ \E m \in RequestModels, t \in InputTexts : infer(1, m, t)
    \/ \E c \in StatusCodes, b \in Bodies : post_returns(1, c, b)
    \/ post_raises(1)
    \/ respond(1)
    \/ \E t \in ClockReadings : Tick(t)

\* a process of any seed
GatewayInit == InitWith(HashSeeds)

GatewaySpec == GatewayInit /\ [][GatewayNext]_vars

----------------------------------------------------------------------------
(* C1: under any sequence of get and set calls and clock readings, for any *)
(* max_items >= 1, the store never holds more than max_items entries.      *)
C1_SizeBound == Len(store) <= max_items

\* a set was made on a full store, and the store is full again
C1_Witness ==
    /\ last.op = "set"
    /\ Len(last.before) = max_items
    /\ Len(store) = max_items
    /\ last.key \notin dict_keys(last.before)

(* C2: get(k) returns None when no entry for k is stored or when           *)
(* now - createdAt(k) > ttl_seconds, and otherwise exactly the value of    *)
(* the most recent set(k, v) still stored; an entry of age exactly         *)
(* ttl_seconds is served, one of age ttl_seconds + 1 is not.               *)
C2_GetContract ==
    last.op = "get" =>
        last.ret = IF last.key \notin dict_keys(last.before)
                   THEN None
                   ELSE IF last.now - last.prior.at > ttl_seconds
                        THEN None
                        ELSE last.prior.value

\* a get served an entry of age exactly ttl_seconds
C2_Witness ==
    /\ last.op = "get"
    /\ last.ret # None
    /\ last.prior # None
    /\ last.now - last.prior.at = ttl_seconds

(* C3: a set on a store of >= max_items entries removes exactly one entry  *)
(* before inserting, the one of smallest createdAt (the first of them in   *)
(* iteration order); a set on a smaller store removes nothing; afterwards  *)
(* the entry of the set key has createdAt = now.                           *)
Without(s, i) == [j \in 1..(Len(s) - 1) |-> IF j < i THEN s[j] ELSE s[j + 1]]

C3_Eviction ==
    last.op = "set" =>
        /\ Len(last.before) >= max_items =>
               \E i \in 1..Len(last.before) :
                   /\ last.mid = Without(last.before, i)
                   /\ \A j \in 1..Len(last.before) :
                          last.before[i].ts <= last.before[j].ts
                   /\ \A j \in 1..(i - 1) :
                          last.before[j].ts > last.before[i].ts
        /\ Len(last.before) < max_items => last.mid = last.before
        /\ last.key \in dict_keys(store)
        /\ dict_get(store, last.key).ts = last.now

\* a set evicted from a full store whose two oldest entries tie: the first
\* of them in iteration order went, the second stayed
C3_Witness ==
    /\ last.op = "set"
    /\ Len(last.before) >= max_items
    /\ Len(last.before) >= 2
    /\ last.before[1].ts = last.before[2].ts
    /\ \A j \in 1..Len(last.before) : last.before[1].ts <= last.before[j].ts
    /\ last.mid = Tail(last.before)

----------------------------------------------------------------------------
(* Requests: what a step of request i is *)

Slots == 1..NumRequests

Entries(s) == {s[j] : j \in 1..Len(s)}

\* the key-value pairs stored, createdAt left out
KV(s) == {<<s[j].key, s[j].value>> : j \in 1..Len(s)}

\* a stored, non-expired entry for k
Live(s, k, t) == \E j \in 1..Len(s) : s[j].key = k /\ t - s[j].ts <= ttl_seconds

StepStarts(i) == reqs[i].pc = "idle" /\ reqs'[i].pc # "idle"
StepFails(i) == reqs[i].pc # "raised" /\ reqs'[i].pc = "raised"
StepRetries(i) == reqs[i].attempts = 1 /\ reqs'[i].attempts = 2
StepStores(i) == reqs[i].pc = "post" /\ reqs'[i].pc = "returned"

(* C4: a request whose gateway call fails (no credential, a non-200 status *)
(* after the permitted retry, an unreadable body, a transport error) adds  *)
(* and overwrites no cache entry, neither in the failing step nor in the   *)
(* retry before it, and ends with an error and no result.                  *)
C4_FailedCallWritesNothing ==
    [][\A i \in Slots :
          /\ StepFails(i) =>
                /\ Entries(store') \subseteq Entries(store)
                /\ reqs'[i].ret = None
                /\ reqs'[i].exc # ""
          /\ StepRetries(i) => store' = store]_vars

\* a request failed upstream after its retry while the cache held an entry
C4_Witness ==
    \E i \in Slots :
        /\ reqs[i].pc = "raised"
        /\ reqs[i].attempts = 2
        /\ reqs[i].exc = UpstreamError(reqs[i].body)
        /\ store # <<>>

(* C5: a request whose key has a stored, non-expired entry returns that    *)
(* entry's value without any gateway attempt; any other request invokes    *)
(* the gateway, and when it returns a result, the entry of its key holds   *)
(* exactly the value returned.                                             *)
C5_HitOrMiss ==
    [][\A i \in Slots :
          /\ StepStarts(i) =>
                IF Live(store, reqs'[i].cache_key, now)
                THEN /\ reqs'[i].pc = "returned"
                     /\ reqs'[i].attempts = 0
                     /\ <<reqs'[i].cache_key, reqs'[i].ret>> \in KV(store)
                ELSE /\ reqs'[i].ret = None
                     /\ \/ reqs'[i].pc = "post" /\ reqs'[i].attempts = 1
                        \/ reqs'[i].exc = ConfigurationError
          /\ StepStores(i) =>
                /\ reqs'[i].ret # None
                /\ <<reqs'[i].cache_key, reqs'[i].ret>> \in KV(store')]_vars

\* one request returned a cached value while another returned a fresh one
C5_Witness ==
    \E i, j \in Slots :
        /\ reqs[i].pc = "returned" /\ reqs[i].cached # None /\ reqs[i].attempts = 0
        /\ reqs[j].pc = "returned" /\ reqs[j].cached = None /\ reqs[j].attempts = 1
        /\ reqs[i].ret = reqs[j].ret

(* C6: a gateway invocation makes a second POST exactly when the first     *)
(* response had status 429 or 503, never a third; when the last response   *)
(* received is not a 200 the invocation fails with the upstream error      *)
(* carrying that response's text.                                          *)
C6_SingleRetry ==
    \A i \in Slots :
        LET q == reqs[i] IN
        /\ q.attempts <= 2
        /\ Len(q.codes) <= q.attempts
        /\ q.attempts = 2 <=> (Len(q.codes) >= 1 /\ q.codes[1] \in {429, 503})
        /\ (q.attempts >= 1 /\ Len(q.codes) = q.attempts /\ q.codes[q.attempts] # 200)
              => /\ q.pc = "raised"
                 /\ q.exc = "Hugging Face Router API error: " \o q.body

\* a 503 was retried, the retry came back 429, and the request failed
C6_Witness ==
    \E i \in Slots :
        /\ reqs[i].codes = <<503, 429>>
        /\ reqs[i].pc = "raised"
        /\ reqs[i].exc = "Hugging Face Router API error: {error:busy}"

(* C7: under every interleaving of the concurrent requests the store holds *)
(* at most max_items entries and no two entries of one key; a request is   *)
(* suspended only in its gateway call, after its get and before its set.   *)
C7_ConcurrentStore ==
    /\ Len(store) <= max_items
    /\ \A a, b \in 1..Len(store) : store[a].key = store[b].key => a = b
    /\ \A i \in Slots : reqs[i].pc = "post" => reqs[i].cached = None /\ reqs[i].ret = None

\* two requests missed one key; one has stored into a full store, the
\* other is still in its gateway call
C7_Witness ==
    \E i, j \in Slots :
        /\ i # j
        /\ reqs[i].pc = "post"
        /\ reqs[j].pc = "returned" /\ reqs[j].cached = None
        /\ reqs[i].cache_key = reqs[j].cache_key
        /\ Len(store) = max_items

(* C8: when a request stores (k, v) and the store already holds (k, v),    *)
(* written by a concurrent request that missed the same key, the stored    *)
(* keys and values are the same afterwards as before.                      *)
C8_SecondWriteIdempotent ==
    [][\A i \in Slots :
          (StepStores(i) /\ <<reqs'[i].cache_key, reqs'[i].ret>> \in KV(store))
             => KV(store') = KV(store)]_vars

(* C9: a key built by explain never equals a key built by infer, whatever  *)
(* the model and the two texts; a request only ever returns a value of its *)
(* own operation; equal (operation, model, text) triples get equal keys.   *)
AllTexts == {<<>>} \cup {<<c>> : c \in {"a", "b"}}
                   \cup {<<c, d>> : c \in {"a", "b"}, d \in {"a", "b"}}

\* the keys each operation can build, in a process of any seed
ExplainKeys == {explain_cache_key(sd, m, t) : sd \in HashSeeds, m \in Models, t \in AllTexts}
InferKeys == {infer_cache_key(sd, m, t) : sd \in HashSeeds, m \in Models, t \in AllTexts}

C9_KeysDisjoint ==
    /\ ExplainKeys \cap InferKeys = {}
    /\ \A i \in Slots :
           reqs[i].pc # "idle" =>
               reqs[i].cache_key \in (IF reqs[i].op = "explain"
                                      THEN ExplainKeys ELSE InferKeys)
    /\ \A i \in Slots :
           reqs[i].pc = "returned" =>
               DOMAIN reqs[i].ret = (IF reqs[i].op = "explain"
                                     THEN {"explanation"} ELSE {"text"})
    /\ \A i, j \in Slots :
           (/\ reqs[i].pc # "idle" /\ reqs[j].pc # "idle"
            /\ reqs[i].op = reqs[j].op
            /\ reqs[i].model = reqs[j].model
            /\ reqs[i].text = reqs[j].text)
              => reqs[i].cache_key = reqs[j].cache_key

\* an infer request was served from the cache while the explain entry of
\* the same model and text was stored too
C9_Witness ==
    \E i \in Slots :
        /\ reqs[i].op = "infer"
        /\ reqs[i].pc = "returned"
        /\ reqs[i].cached # None
        /\ explain_cache_key(hashSeed, reqs[i].model, reqs[i].text) \in dict_keys(store)

(* C10: without the credential, every gateway invocation fails with the    *)
(* configuration error before any POST, the request ends with that error   *)
(* and no result, and the cache stays empty.                               *)
C10_Unconfigured ==
    HF_API_TOKEN = "" =>
        /\ store = <<>>
        /\ \A i \in Slots :
              /\ reqs[i].attempts = 0
              /\ reqs[i].codes = <<>>
              /\ reqs[i].pc \in {"idle", "raised"}
              /\ reqs[i].pc = "raised" =>
                    reqs[i].exc = ConfigurationError /\ reqs[i].ret = None

\* a request failed with the configuration error
C10_Witness ==
    /\ HF_API_TOKEN = ""
    /\ \E i \in Slots : reqs[i].pc = "raised" /\ reqs[i].exc = ConfigurationError


----------------------------------------------------------------------------
(* The analysis functions.  A text is a sequence of pieces, each a         *)
(* character or a lexeme that the patterns of the code read as a whole.    *)

\* bound on the length of the character-level texts
MaxLen == 4

Whitespace == {" ", "\t", "\n", "\r"}

\* str.isspace of a piece
IsSpace(c) == c \in Whitespace

\* code.replace("\t", "    ")
RECURSIVE replace_tabs(_)
replace_tabs(text) ==
    IF text = <<>> THEN <<>>
    ELSE IF Head(text) = "\t"
         THEN <<" ", " ", " ", " ">> \o replace_tabs(Tail(text))
         ELSE <<Head(text)>> \o replace_tabs(Tail(text))

\* str.splitlines: a line ends at "\n", at "\r" or at "\r\n" taken as one
\* terminator; a terminator at the very end opens no further line
RECURSIVE splitlines_from(_, _)
splitlines_from(text, line) ==
    IF text = <<>> THEN (IF line = <<>> THEN <<>> ELSE <<line>>)
    ELSE IF Head(text) = "\r" /\ Len(text) >= 2 /\ text[2] = "\n"
         THEN <<line>> \o splitlines_from(Tail(Tail(text)), <<>>)
    ELSE IF Head(text) \in {"\n", "\r"}
         THEN <<line>> \o splitlines_from(Tail(text), <<>>)
    ELSE splitlines_from(Tail(text), Append(line, Head(text)))

splitlines(text) == splitlines_from(text, <<>>)

\* str.rstrip and str.strip with no argument
RECURSIVE rstrip(_)
rstrip(text) ==
    IF text = <<>> THEN <<>>
    ELSE IF IsSpace(text[Len(text)]) THEN rstrip(SubSeq(text, 1, Len(text) - 1))
    ELSE text

RECURSIVE lstrip(_)
lstrip(text) ==
    IF text = <<>> THEN <<>>
    ELSE IF IsSpace(Head(text)) THEN lstrip(Tail(text))
    ELSE text

strip(text) == lstrip(rstrip(text))

\* "\n".join(lines)
RECURSIVE join(_)
join(lines) ==
    IF lines = <<>> THEN <<>>
    ELSE IF Len(lines) = 1 THEN lines[1]
    ELSE lines[1] \o <<"\n">> \o join(Tail(lines))

\* the same without the strip of the joined text
simple_auto_format_without_strip(code) ==
    LET lines == splitlines(replace_tabs(code))
    IN  Append(join([j \in 1..Len(lines) |-> rstrip(lines[j])]), "\n")

\* simple_auto_format
simple_auto_format(code) ==
    LET lines == splitlines(replace_tabs(code))
    IN  Append(strip(join([j \in 1..Len(lines) |-> rstrip(lines[j])])), "\n")


\* the function headers the pattern of find_duplicate_functions reads:
\* "def", whitespace, a name, a parameter list and the colon
DefHeaders == {"def a():", "def b():", "def c():"}

\* group 1 of the pattern
NameOf(header) ==
    CASE header = "def a():" -> "a"
      [] header = "def b():" -> "b"
      [] header = "def c():" -> "c"

\* where ^def\s+ matches under re.M: a header at the start of the text or
\* right after a "\n"
AtLineStart(text, j) ==
    /\ j \in 1..Len(text)
    /\ text[j] \in DefHeaders
    /\ (j = 1 \/ text[j - 1] = "\n")

\* the pattern is not anchored: a match starts at the first header from
\* position i on (Len(text) + 1 when there is none)
RECURSIVE first_header_from(_, _)
first_header_from(text, i) ==
    IF i > Len(text) THEN Len(text) + 1
    ELSE IF text[i] \in DefHeaders THEN i
    ELSE first_header_from(text, i + 1)

\* the lookahead (?=^def\s+|\Z): the first header at a line start from
\* position i on, or the end of the text
RECURSIVE body_end_from(_, _)
body_end_from(text, i) ==
    IF i > Len(text) THEN Len(text) + 1
    ELSE IF AtLineStart(text, i) THEN i
    ELSE body_end_from(text, i + 1)

\* re.sub(r"\s+", "", body)
remove_whitespace(text) == SelectSeq(text, LAMBDA c : ~IsSpace(c))

\* pattern.findall(code) from position i on: the leftmost header starts a
\* match, \s* takes the whitespace behind the colon, and the lazy body runs
\* to the first header at a line start, or to the end of the text; the
\* scan goes on from where the match ended
RECURSIVE findall_from(_, _)
findall_from(text, i) ==
    LET h == first_header_from(text, i)
        e == body_end_from(text, h + 1)
    IN  IF h > Len(text) THEN <<>>
        ELSE <<[name |-> NameOf(text[h]), body |-> lstrip(SubSeq(text, h + 1, e - 1))]>>
             \o findall_from(text, e)

findall(text) == findall_from(text, 1)

\* the loop variables before the first match
LoopInit == [bodies_map |-> <<>>, dups |-> <<>>]

\* d[key] = name on a dict
map_setitem(d, key, name) ==
    [k \in DOMAIN d \cup {key} |-> IF k = key THEN name ELSE d[k]]

\* the loop body without the comparison of the names
loop_body_pairs_any_name(st, m) ==
    LET key == remove_whitespace(m.body)
    IN  IF key \in DOMAIN st.bodies_map
        THEN [st EXCEPT !.dups = Append(@, <<st.bodies_map[key], m.name>>)]
        ELSE [st EXCEPT !.bodies_map = map_setitem(@, key, m.name)]

\* the loop body remembering the latest name of a body
loop_body_keeps_last_name(st, m) ==
    LET key == remove_whitespace(m.body)
    IN  IF key \in DOMAIN st.bodies_map /\ st.bodies_map[key] # m.name
        THEN [bodies_map |-> map_setitem(st.bodies_map, key, m.name),
              dups |-> Append(st.dups, <<st.bodies_map[key], m.name>>)]
        ELSE [st EXCEPT !.bodies_map = map_setitem(@, key, m.name)]

\* one pass through the body of the for loop
loop_body(st, m) ==
    LET key == remove_whitespace(m.body)
    IN  IF key \in DOMAIN st.bodies_map /\ st.bodies_map[key] # m.name
        THEN [st EXCEPT !.dups = Append(@, <<st.bodies_map[key], m.name>>)]
        ELSE [st EXCEPT !.bodies_map = map_setitem(@, key, m.name)]

\* the loop variables after the first n matches
RECURSIVE loop_after(_, _)
loop_after(matches, n) ==
    IF n = 0 THEN LoopInit
    ELSE loop_body(loop_after(matches, n - 1), matches[n])

find_duplicate_functions(code) ==
    LET matches == findall(code)
    IN  loop_after(matches, Len(matches)).dups


\* lexemes the patterns of lint_like_findings look for
LongWord == "LONG"
LintLexemes == {"print(x)", "logging", "except:pass", "==None", "pass", LongWord}

\* the limit of the line-length check
max_line_length == 120

\* len() of a piece
Width(c) ==
    CASE c \in Whitespace \cup {"x", "y"} -> 1
      [] c \in DefHeaders -> 8
      [] c = "print(x)" -> 8
      [] c = "logging" -> 7
      [] c = "except:pass" -> 11
      [] c = "==None" -> 6
      [] c = "pass" -> 4
      [] c = LongWord -> max_line_length + 1

RECURSIVE TextWidth(_)
TextWidth(text) == IF text = <<>> THEN 0 ELSE Width(Head(text)) + TextWidth(Tail(text))

Contains(text, c) == \E j \in 1..Len(text) : text[j] = c

\* a piece that begins with a word character, so that no \b lies before it
StartsWithWordChar(c) == c \notin Whitespace \cup {"==None"}

\* re.search(r"def\s+.+\([^)]*\):\s*\n\s*pass\b", code): a header, then
\* whitespace with a "\n" in it, then the word pass
stub_found(text) ==
    \E h, q \in 1..Len(text) :
        /\ h < q - 1
        /\ text[h] \in DefHeaders
        /\ text[q] = "pass"
        /\ \A j \in (h + 1)..(q - 1) : IsSpace(text[j])
        /\ \E j \in (h + 1)..(q - 1) : text[j] = "\n"
        /\ (q = Len(text) \/ ~StartsWithWordChar(text[q + 1]))

\* re.search(r"\s+$", code, re.M): \s takes any whitespace, the line
\* terminators included, and $ matches at the end of the text and before
\* every "\n"
trailing_whitespace_found(text) ==
    \E j \in 1..Len(text) :
        /\ IsSpace(text[j])
        /\ (j = Len(text) \/ text[j + 1] = "\n")

\* the messages, their backquotes written as apostrophes
TabsFinding == "Use spaces instead of tabs (PEP 8)."
PrintFinding == "Prefer 'logging' over bare 'print' for production code."
BareExceptFinding == "Avoid bare 'except: pass'; catch specific exceptions and handle them."
EqNoneFinding == "Use 'is None' / 'is not None' instead of '== None'."
StubFinding == "Stub functions detected; implement or document TODOs."
LongLineFinding == "Some lines exceed 120 characters; consider wrapping."
TrailingWhitespaceFinding == "Trailing whitespace found; remove for clean diffs."

\* findings.append(msg) under a condition
AppendIf(cond, msg) == IF cond THEN <<msg>> ELSE <<>>

lint_like_findings(code) ==
    LET lines == splitlines(code)
    IN  AppendIf(Contains(code, "\t"), TabsFinding)
        \o AppendIf(Contains(code, "print(x)") /\ ~Contains(code, "logging"), PrintFinding)
        \o AppendIf(Contains(code, "except:pass"), BareExceptFinding)
        \o AppendIf(Contains(code, "==None"), EqNoneFinding)
        \o AppendIf(stub_found(code), StubFinding)
        \o AppendIf(\E j \in 1..Len(lines) : TextWidth(lines[j]) > max_line_length,
                    LongLineFinding)
        \o AppendIf(trailing_whitespace_found(code), TrailingWhitespaceFinding)

\* the suggestion for one pair of the detector
PairSuggestion(a, b) ==
    [symbol |-> a \o " & " \o b,
     suggestion |-> "Functions '" \o a \o "' and '" \o b
                    \o "' have identical bodies. Extract a single helper and reuse."]

GeneralSuggestion ==
    [symbol |-> "General",
     suggestion |-> "No duplicate functions detected. Consider extracting shared logic if future duplication appears."]

\* the refactors list without the fallback entry
refactors_of_pairs_only(dups) ==
    [j \in 1..Len(dups) |-> PairSuggestion(dups[j][1], dups[j][2])]

\* the refactors list of analyze
refactors_of(dups) ==
    LET refactors == [j \in 1..Len(dups) |-> PairSuggestion(dups[j][1], dups[j][2])]
    IN  IF refactors = <<>> THEN <<GeneralSuggestion>> ELSE refactors


----------------------------------------------------------------------------
(* AnalyzeSpec: the analysis functions applied to a request text *)

\* bound on the number of function definitions in a source text
MaxFunctions == 3

\* the pieces of the character-level texts
Alphabet == Whitespace \cup {"x", "def a():"}

RECURSIVE TextsUpTo(_, _)
TextsUpTo(alphabet, n) ==
    IF n = 0 THEN {<<>>}
    ELSE LET shorter == TextsUpTo(alphabet, n - 1)
         IN  shorter \cup {Append(t, c) : t \in shorter, c \in alphabet}

\* what follows a header up to the next one: no body, a body on the same
\* line, the same body on the next line, another body, and a body whose
\* line does not end before the next header
FunctionTexts ==
    {<<"\n">>, <<" ", "x", "\n">>, <<"\n", " ", "x", "\n">>,
     <<"\n", " ", "y", "\n">>, <<" ", "x", " ">>}

FunctionDefs == {<<h>> \o t : h \in DefHeaders, t \in FunctionTexts}

RECURSIVE SourcesUpTo(_)
SourcesUpTo(n) ==
    IF n = 0 THEN {<<>>}
    ELSE LET shorter == SourcesUpTo(n - 1)
         IN  shorter \cup {t \o f : t \in shorter, f \in FunctionDefs}

\* texts that make each check of lint_like_findings fire
LintTexts ==
    {<<c>> : c \in LintLexemes}
    \cup {<<"print(x)", "\n", "logging">>, <<LongWord, "\n", LongWord>>}
    \cup {<<"def a():", "\n", " ", "pass">>, <<"def a():", " ", "pass">>,
          <<"def a():", "\n", "pass", "x">>}

RequestTexts == TextsUpTo(Alphabet, MaxLen) \cup SourcesUpTo(MaxFunctions) \cup LintTexts

\* simple_auto_format(req.code)
CallFormat ==
    /\ response' = [op |-> "simple_auto_format",
                    formatted |-> simple_auto_format(req_code)]
    /\ UNCHANGED <<HF_API_TOKEN, hashSeed, max_items, store, now, reqs, last, written, req_code>>

\* lint_like_findings(req.code)
CallLint ==
    /\ response' = [op |-> "lint_like_findings",
                    findings |-> lint_like_findings(req_code)]
    /\ UNCHANGED <<HF_API_TOKEN, hashSeed, max_items, store, now, reqs, last, written, req_code>>

\* find_duplicate_functions(req.code)
CallFindDuplicates ==
    /\ response' = [op |-> "find_duplicate_functions",
                    matches |-> findall(req_code),
                    dups |-> find_duplicate_functions(req_code)]
    /\ UNCHANGED <<HF_API_TOKEN, hashSeed, max_items, store, now, reqs, last, written, req_code>>

\* POST /api/analyze
analyze ==
    /\ response' = [op |-> "analyze",
                    formatted |-> simple_auto_format(req_code),
                    findings |-> lint_like_findings(req_code),
                    refactors |-> refactors_of(find_duplicate_functions(req_code))]
    /\ UNCHANGED <<HF_API_TOKEN, hashSeed, max_items, store, now, reqs, last, written, req_code>>

AnalyzeInit ==
    /\ HF_API_TOKEN = "hf_token"
    /\ hashSeed = 0
    /\ max_items = 1
    /\ store = <<>>
    /\ now = 0
    /\ reqs = <<>>
    /\ last = NoCall
    /\ written = [k \in CacheKeys |-> None]
    /\ req_code \in RequestTexts
    /\ response = None

AnalyzeNext ==
    \/ CallFormat
    \/ CallLint
    \/ CallFindDuplicates
    \/ analyze

AnalyzeSpec == AnalyzeInit /\ [][AnalyzeNext]_vars


----------------------------------------------------------------------------
(* C11: simple_auto_format is idempotent: formatting a formatted text      *)
(* gives the same text back; a formatted text ends with exactly one        *)
(* newline (the piece before it, if there is one, is not a newline) and    *)
(* holds no tab.                                                           *)
C11_FormatIdempotent ==
    (response # None /\ response.op = "simple_auto_format") =>
        LET y == response.formatted
        IN  /\ simple_auto_format(y) = y
            /\ y # <<>>
            /\ y[Len(y)] = "\n"
            /\ (Len(y) > 1 => y[Len(y) - 1] # "\n")
            /\ ~Contains(y, "\t")

\* a text with a tab, a carriage return and a word has been formatted into
\* something else
C11_Witness ==
    /\ response # None
    /\ response.op = "simple_auto_format"
    /\ Contains(req_code, "\t")
    /\ Contains(req_code, "\r")
    /\ Contains(req_code, "x")
    /\ response.formatted # req_code


----------------------------------------------------------------------------
(* C12: the formatted text is the input with every tab replaced by four    *)
(* spaces, every line stripped of its trailing whitespace, the blank lines *)
(* before the first and after the last non-blank line removed, and one     *)
(* newline at the end; the indentation of the first non-blank line stays.  *)
C12_FormatSteps ==
    (response # None /\ response.op = "simple_auto_format") =>
        LET split == splitlines(replace_tabs(req_code))
            lines == [j \in 1..Len(split) |-> rstrip(split[j])]
            kept == {j \in 1..Len(lines) : lines[j] # <<>>}
            first == CHOOSE j \in kept : \A k \in kept : j <= k
            final == CHOOSE j \in kept : \A k \in kept : k <= j
        IN  response.formatted =
                IF kept = {} THEN <<"\n">>
                ELSE Append(join(SubSeq(lines, first, final)), "\n")


----------------------------------------------------------------------------
(* C13: find_duplicate_functions never pairs a name with itself, whether   *)
(* the body is empty or the same name is defined again with the same       *)
(* stripped body; two definitions with the same stripped body and          *)
(* different names give the one pair (first name, second name); when no    *)
(* two definitions share a stripped body the result is empty.              *)
C13_DuplicatePairs ==
    (response # None /\ response.op = "find_duplicate_functions") =>
        LET m == response.matches
            d == response.dups
            key(j) == remove_whitespace(m[j].body)
        IN  /\ \A j \in 1..Len(d) : d[j][1] # d[j][2]
            /\ (Len(m) = 2 /\ key(1) = key(2) /\ m[1].name # m[2].name)
                   => d = << <<m[1].name, m[2].name>> >>
            /\ (\A i, j \in 1..Len(m) : i # j => key(i) # key(j)) => d = <<>>

\* two definitions whose bodies differ only in whitespace were paired
C13_Witness ==
    /\ response # None
    /\ response.op = "find_duplicate_functions"
    /\ Len(response.matches) = 2
    /\ response.matches[1].body # response.matches[2].body
    /\ response.dups = << <<"a", "b">> >>


----------------------------------------------------------------------------
(* C14: the refactors of analyze hold, in the order of the detector, one   *)
(* suggestion labelled "a & b" for each pair (a, b) it returns, and the    *)
(* one general suggestion when it returns none: never empty, never the     *)
(* general suggestion next to another.  For the empty text formatted is a  *)
(* single newline, findings is empty and refactors is the general          *)
(* suggestion alone.                                                       *)
C14_Refactors ==
    (response # None /\ response.op = "analyze") =>
        LET d == find_duplicate_functions(req_code)
            r == response.refactors
        IN  /\ r # <<>>
            /\ d # <<>> =>
                   /\ Len(r) = Len(d)
                   /\ \A j \in 1..Len(d) :
                          /\ r[j].symbol = d[j][1] \o " & " \o d[j][2]
                          /\ r[j] # GeneralSuggestion
            /\ d = <<>> => r = <<GeneralSuggestion>>
            /\ (\E j \in 1..Len(r) : r[j] = GeneralSuggestion) => Len(r) = 1
            /\ req_code = <<>> =>
                   /\ response.formatted = <<"\n">>
                   /\ response.findings = <<>>
                   /\ r = <<GeneralSuggestion>>

\* a source with three functions of one body was analysed: two suggestions
C14_Witness ==
    /\ response # None
    /\ response.op = "analyze"
    /\ Len(response.refactors) = 2
    /\ response.refactors[1].symbol = "a & b"
    /\ response.refactors[2].symbol = "a & c"


----------------------------------------------------------------------------
(* C15: the findings hold the trailing-whitespace finding exactly when     *)
(* some line of the text has whitespace between its last non-whitespace    *)
(* character (or its start) and its end, and hold it at most once; a text  *)
(* whose lines all end in a non-whitespace character right before the      *)
(* newline does not get it.                                                *)
C15_TrailingWhitespace ==
    (response # None /\ response.op = "lint_like_findings") =>
        LET lines == splitlines(req_code)
            f == response.findings
            hits == {j \in 1..Len(f) : f[j] = TrailingWhitespaceFinding}
        IN  /\ Cardinality(hits) <= 1
            /\ hits # {} <=>
                   \E j \in 1..Len(lines) :
                       lines[j] # <<>> /\ IsSpace(lines[j][Len(lines[j])])


----------------------------------------------------------------------------
(* C16: get changes the store only by removing the asked key when it is    *)
(* expired: a get that returns a value leaves every entry as it was, its   *)
(* createdAt included; a get on an expired entry removes that entry and    *)
(* no other; a get on an absent key changes nothing; expired entries of    *)
(* other keys stay.                                                        *)
C16_GetFrame ==
    last.op = "get" =>
        /\ last.ret # None => store = last.before
        /\ last.key \notin dict_keys(last.before) => store = last.before
        /\ (last.ret = None /\ last.key \in dict_keys(last.before)) =>
               \E i \in 1..Len(last.before) :
                   /\ last.before[i].key = last.key
                   /\ last.now - last.before[i].ts > ttl_seconds
                   /\ store = Without(last.before, i)

\* a get removed its expired entry and left the expired entry of another
\* key in the store
C16_Witness ==
    /\ last.op = "get"
    /\ last.ret = None
    /\ last.key \in dict_keys(last.before)
    /\ Len(store) = Len(last.before) - 1
    /\ \E j \in 1..Len(store) : last.now - store[j].ts > ttl_seconds


----------------------------------------------------------------------------
(* C17: over the matches (name, body) in the order of the text, the map    *)
(* holds for each stripped body the first name seen with it and an entry   *)
(* is never changed once set; the result holds, in scan order, one pair    *)
(* (first name of the body, current name) for every match whose body is    *)
(* already in the map under a different name, and nothing else: k          *)
(* functions of one body and different names give (first, second),         *)
(* (first, third), ...                                                     *)
C17_FirstNameMap ==
    (response # None /\ response.op = "find_duplicate_functions") =>
        LET m == response.matches
            d == response.dups
            key(j) == remove_whitespace(m[j].body)
            first(j) == CHOOSE i \in 1..j :
                            key(i) = key(j) /\ \A h \in 1..(i - 1) : key(h) # key(j)
            hits == {j \in 1..Len(m) : first(j) < j /\ m[first(j)].name # m[j].name}
            nth(n) == CHOOSE j \in hits : Cardinality({h \in hits : h <= j}) = n
        IN  /\ \A n \in 0..(Len(m) - 1) :
                   LET old == loop_after(m, n).bodies_map
                       new == loop_after(m, n + 1).bodies_map
                   IN  \A k \in DOMAIN old : k \in DOMAIN new /\ new[k] = old[k]
            /\ \A n \in 1..Len(m) :
                   loop_after(m, n).bodies_map[key(n)] = m[first(n)].name
            /\ Len(d) = Cardinality(hits)
            /\ \A n \in 1..Len(d) : d[n] = <<m[first(nth(n))].name, m[nth(n)].name>>

\* three functions of one body: the second and the third are each paired
\* with the first
C17_Witness ==
    /\ response # None
    /\ response.op = "find_duplicate_functions"
    /\ Len(response.matches) = 3
    /\ response.dups = << <<"a", "b">>, <<"a", "c">> >>


----------------------------------------------------------------------------
(* MonotonicCacheSpec: the calls of CacheSpec under a clock that only      *)
(* moves forward                                                           *)

Advance(t) == t > now /\ Tick(t)

MonotonicCacheNext ==
    \/ \E k \in CacheKeys : CallGet(k)
    \/ \E k \in CacheKeys, v \in CacheValues : CallSet(k, v)
    \/ \E t \in ClockReadings : Advance(t)

MonotonicCacheSpec == CacheInit /\ [][MonotonicCacheNext]_vars

(* C18: under a clock that never goes backwards, the entry a set evicts is *)
(* at least as old as every entry that remains, so when the evicted entry  *)
(* was not yet expired no entry left in the store is expired.              *)
C18_EvictsOldest ==
    (last.op = "set" /\ last.mid # last.before) =>
        \E i \in 1..Len(last.before) :
            /\ last.mid = Without(last.before, i)
            /\ \A j \in 1..Len(last.mid) : last.before[i].ts <= last.mid[j].ts
            /\ \A j \in 1..Len(store) : last.before[i].ts <= store[j].ts
            /\ last.now - last.before[i].ts <= ttl_seconds =>
                   /\ \A j \in 1..Len(last.mid) :
                          last.now - last.mid[j].ts <= ttl_seconds
                   /\ \A j \in 1..Len(store) :
                          last.now - store[j].ts <= ttl_seconds

\* a set evicted an entry that had not expired, and an older reading of
\* the clock is behind: entries of two different ages were stored
C18_Witness ==
    /\ last.op = "set"
    /\ last.mid # last.before
    /\ Len(last.before) >= 2
    /\ \E i, j \in 1..Len(last.before) :
           /\ last.mid = Without(last.before, i)
           /\ last.now - last.before[i].ts <= ttl_seconds
           /\ last.before[j].ts > last.before[i].ts


----------------------------------------------------------------------------
(* LiveSpec: request 1 next to another request in flight.  The router      *)
(* answers with any status; every POST of request 1 ends, with a response  *)
(* or with an exception (the client is built with timeout=60), which is    *)
(* the weak fairness of AttemptEnds(1).  Nothing is assumed of request 2   *)
(* or of the clock: its POST may hang and the time may stand still.        *)

\* the request observed and the other one in flight
Observed == {1}
InFlight == {1, 2}

\* the POST request i awaits ends
AttemptEnds(i) ==
    \/ \E c \in StatusCodes, b \in JsonBodies : post_returns(i, c, b)
    \/ post_raises(i)

\* one text: both requests may ask for the same key
LiveTexts == {<<"a">>}

LiveNext ==
    \/ \E i \in InFlight, m \in RequestModels, t \in LiveTexts : explain(i, m, t)
    \/ \E i \in InFlight, m \in RequestModels, t \in LiveTexts : infer(i, m, t)
    \/ \E i \in InFlight : AttemptEnds(i)
    \/ \E i \in InFlight : respond(i)
    \/ \E t \in ClockReadings : Tick(t)

LiveSpec ==
    /\ Init
    /\ [][LiveNext]_vars
    /\ \A i \in Observed : WF_vars(AttemptEnds(i))

\* request i has its response or its error
Completed(i) == reqs[i].pc \in {"returned", "raised"}

(* C19: a request that awaits the gateway completes with a response or an  *)
(* error once its POSTs end, whatever the other request and the clock do;  *)
(* a handler that does not await has completed within its first step; no   *)
(* request makes more than two attempts.                                   *)
C19_Completes ==
    /\ \A i \in Observed : (reqs[i].pc = "post") ~> Completed(i)
    /\ [](\A i \in InFlight :
              /\ reqs[i].pc \in {"idle", "post", "returned", "raised"}
              /\ reqs[i].attempts <= 2
              /\ Len(reqs[i].codes) <= 2)

\* request 1 completed after a retry while request 2 still awaits its POST
C19_Witness ==
    /\ Completed(1)
    /\ reqs[1].attempts = 2
    /\ reqs[2].pc = "post"

====
